---- MODULE Spec2Model ----
(***************************************************************************)
(* Model of src/widgets/SearchWidget.cpp (Cutter): the search panel        *)
(* controller (SearchWidget), its table model (SearchModel) and its        *)
(* sort/filter proxy (SearchSortFilterProxyModel).                         *)
(*                                                                         *)
(* Text (QString) is a sequence of one-character strings, so that          *)
(* escaping, substring search and lexical comparison are computed.         *)
(* Combo-box keys and labels are opaque strings.                           *)
(*                                                                         *)
(* The Qt event loop is modelled by `stack`: one frame per Enter/click     *)
(* handler that is inside qApp->processEvents() (pc "flush") or inside     *)
(* the modal QMessageBox (pc "dialog").  Events are dispatched whenever an *)
(* event loop is running: the top-level one (empty stack) or the nested    *)
(* one of the top frame.                                                   *)
(***************************************************************************)
EXTENDS Integers, Sequences, FiniteSets, TLC

VARIABLES
    search,            \* SearchWidget::search, the result set (QList<SearchDescription>)
    searchInCombo,     \* ui->searchInCombo: [items, idx]
    searchspaceCombo,  \* ui->searchspaceCombo: [items, idx]
    filterLineEdit,    \* ui->filterLineEdit: [text, placeholder]
    searchButton,      \* ui->searchButton: [enabled, text]
    core,              \* CutterCore: [currentlyDebugging, currentlyEmulating, comments]
    proxy,             \* search_proxy_model: [filter, sortColumn]
    stack,             \* handlers suspended in a nested event loop, innermost last
    toolTip,           \* the last Qt::ToolTipRole answer of SearchModel::data, or NoToolTip
    last               \* the last step: [op, calls, dialogs]; calls are the engine
                       \* getAllSearch calls it made, dialogs the messages it presented

vars == <<search, searchInCombo, searchspaceCombo, filterLineEdit, searchButton,
          core, proxy, stack, toolTip, last>>

----------------------------------------------------------------------------
(* Bounds of the model *)

\* longest result list the engine returns to the controller specification
MaxResults == 1
\* longest result list the engine returns to the view specification
MaxRows == 2
\* deepest nesting of Enter/click handlers re-entered through processEvents
MaxDepth == 2
\* highest combo index the user picks
MaxPick == 1

----------------------------------------------------------------------------
(* Program constants *)

kMaxTooltipDisasmPreviewLines == 10
kMaxTooltipHexdumpBytes == 64

\* SearchModel::Columns (declared in SearchWidget.h)
OFFSET == 0
SIZE == 1
CODE == 2
DATA == 3
COMMENT == 4
COUNT == 5

----------------------------------------------------------------------------
(* Values *)

NoToolTip == [row |-> -1]

\* QString::operator< compares code units; the code units of the characters used
CharCode(c) ==
    CASE c = "a" -> 97
      [] c = "b" -> 98
      [] c = "<" -> 60
      [] c = ">" -> 62
      [] c = "&" -> 38
      [] c = ";" -> 59
      [] c = "l" -> 108
      [] c = "g" -> 103
      [] c = "t" -> 116
      [] c = "m" -> 109
      [] c = "p" -> 112
      [] c = "q" -> 113
      [] c = "u" -> 117
      [] c = "o" -> 111
      [] OTHER -> 0

\* all sequences over S of length at most n
Lists(S, n) == UNION { [1..k -> S] : k \in 0..n }

\* SearchDescription records the engine may return
Records ==
    { [offset |-> 1, size |-> 2, code |-> <<"a", "b">>, data |-> <<>>],
      [offset |-> 2, size |-> 1, code |-> <<>>,         data |-> <<"a", "b">>],
      [offset |-> 2, size |-> 2, code |-> <<"b">>,      data |-> <<>>],
      [offset |-> 1, size |-> 1, code |-> <<>>,         data |-> <<>>] }

Offsets == { r.offset : r \in Records }

\* what the engine answers in the controller specification, where only the
\* number of results matters
EngineAnswers ==
    Lists({ [offset |-> 1, size |-> 2, code |-> <<"a", "b">>, data |-> <<>>] }, MaxResults)

\* what the user types into the filter line edit
FilterTexts == { <<"a">>, <<"<", "&">> }

\* what a quick filter sets as the proxy's filter string
ProxyFilters == { <<>>, <<"a">>, <<"b">>, <<"b", "a">> }

\* the engine's comment tables (getCommentAt)
CommentSets ==
    { [o \in Offsets |-> <<>>],
      [o \in Offsets |-> IF o = 1 THEN <<"b">> ELSE <<"a">>] }

\* the workspace flags the core can be in: static, debugging, emulating
FlagStates ==
    { [currentlyDebugging |-> FALSE, currentlyEmulating |-> FALSE],
      [currentlyDebugging |-> TRUE,  currentlyEmulating |-> FALSE],
      [currentlyDebugging |-> TRUE,  currentlyEmulating |-> TRUE] }

----------------------------------------------------------------------------
(* QComboBox, as the widget uses it *)

\* clear(): no items, no current index
ComboClear(c) == [items |-> <<>>, idx |-> -1]

\* addItem(text, userData): the first item of an empty box becomes current
ComboAddItem(c, text, data) ==
    [items |-> Append(c.items, [text |-> text, data |-> data]),
     idx   |-> IF c.items = <<>> /\ c.idx = -1 THEN 0 ELSE c.idx]

\* setCurrentIndex(i): an index that names no item leaves no current item
ComboSetCurrentIndex(c, i) ==
    [c EXCEPT !.idx = IF i \in 0..(Len(c.items) - 1) THEN i ELSE -1]

\* findData(d): the index of the first item whose data is d, or -1
ComboFindData(c, d) ==
    LET hits == { i \in 1..Len(c.items) : c.items[i].data = d }
    IN  IF hits = {} THEN -1
        ELSE (CHOOSE i \in hits : \A j \in hits : i <= j) - 1

\* currentData().toString(): "" (an invalid QVariant) without a current item
ComboCurrentData(c) ==
    IF c.idx \in 0..(Len(c.items) - 1) THEN c.items[c.idx + 1].data ELSE ""

RECURSIVE ComboAddItems(_, _)
\* the addItem loop over a list of [key, label] pairs
ComboAddItems(c, kvs) ==
    IF kvs = <<>> THEN c
    ELSE ComboAddItems(ComboAddItem(c, Head(kvs).label, Head(kvs).key), Tail(kvs))

----------------------------------------------------------------------------
(* Search boundaries *)

\* QMap iterates in key order
searchBoundaries ==
    << [key |-> "bin.section",  label |-> "Current mapped section"],
       [key |-> "bin.sections", label |-> "All mapped sections"],
       [key |-> "block",        label |-> "Current block"],
       [key |-> "io.map",       label |-> "Current map"],
       [key |-> "io.maps",      label |-> "All maps"],
       [key |-> "raw",          label |-> "Raw"] >>

searchBoundariesDebug ==
    << [key |-> "block",     label |-> "Current block"],
       [key |-> "dbg.heap",  label |-> "Heap"],
       [key |-> "dbg.map",   label |-> "Memory map"],
       [key |-> "dbg.maps",  label |-> "All memory maps"],
       [key |-> "dbg.stack", label |-> "Stack"] >>

\* faulty variant: the combo is not cleared before the new options are added
updateSearchBoundariesNoClear(c, dbg, emu) ==
    ComboAddItems(c, IF dbg /\ ~emu THEN searchBoundariesDebug ELSE searchBoundaries)

\* searchInCombo after updateSearchBoundaries() under the given core flags
updateSearchBoundariesCombo(c, dbg, emu) ==
    LET boundaries == IF dbg /\ ~emu THEN searchBoundariesDebug ELSE searchBoundaries
        selected   == ComboSetCurrentIndex(c, ComboFindData(c, boundaries[1].key))
    IN  ComboAddItems(ComboClear(selected), boundaries)

----------------------------------------------------------------------------
(* Search spaces *)

searchspaces ==
    << [key |-> "/acj", label |-> "asm code"],
       [key |-> "/j",   label |-> "string"],
       [key |-> "/ij",  label |-> "string (case insensitive)"],
       [key |-> "/xj",  label |-> "hex string"],
       [key |-> "/Rj",  label |-> "ROP gadgets"],
       [key |-> "/vj",  label |-> "32bit value"] >>

\* faulty variant: the previous index is not restored after the rebuild
refreshSearchspacesNoRestore(c) ==
    ComboAddItems(ComboClear(c), searchspaces)

\* searchspaceCombo after the rebuild in refreshSearchspaces()
refreshSearchspacesCombo(c) ==
    LET cur_idx == IF c.idx < 0 THEN 0 ELSE c.idx
        rebuilt == ComboAddItems(ComboClear(c), searchspaces)
    IN  IF cur_idx > 0 THEN ComboSetCurrentIndex(rebuilt, cur_idx) ELSE rebuilt

\* the placeholder updatePlaceholderText(index) sets
updatePlaceholderText(index) ==
    CASE index = 1 -> "foobar"
      [] index = 2 -> "FooBar"
      [] index = 3 -> "deadbeef"
      [] index = 4 -> "pop,,pop"
      [] index = 5 -> "0xdeadbeef"
      [] OTHER     -> "jmp rax"

----------------------------------------------------------------------------
(* Searching *)

\* the arguments refreshSearch() passes to Core()->getAllSearch
refreshSearchCall(line, spaceCombo, inCombo) ==
    [searchFor   |-> line.text,
     searchSpace |-> ComboCurrentData(spaceCombo),
     searchIn    |-> ComboCurrentData(inCombo)]

\* QString::toHtmlEscaped of one character
EscapeChar(c) ==
    CASE c = "<"  -> <<"&", "l", "t", ";">>
      [] c = ">"  -> <<"&", "g", "t", ";">>
      [] c = "&"  -> <<"&", "a", "m", "p", ";">>
      [] c = "\"" -> <<"&", "q", "u", "o", "t", ";">>
      [] OTHER    -> <<c>>

RECURSIVE toHtmlEscaped(_)
toHtmlEscaped(s) ==
    IF s = <<>> THEN <<>> ELSE EscapeChar(Head(s)) \o toHtmlEscaped(Tail(s))

\* faulty variant: the search text is appended to the message as typed
noResultsMessageRaw(text) ==
    <<"<b>", "No results found for:", "</b><br>">> \o text

\* the message checkSearchResultEmpty() builds
noResultsMessage(text) ==
    <<"<b>", "No results found for:", "</b><br>">> \o toHtmlEscaped(text)

\* faulty variant: the model reports the list it was constructed with
rowCountOfCopy == Len(<<>>)

\* SearchModel::rowCount: the model holds a pointer to the widget's list
rowCount == Len(search)

\* SearchModel::columnCount
columnCount == COUNT

\* whether an event loop that delivers user input to the panel is running
InputLoop == IF stack = <<>> THEN TRUE ELSE stack[Len(stack)].pc = "flush"

Step(op, calls, dialogs) == [op |-> op, calls |-> calls, dialogs |-> dialogs]

----------------------------------------------------------------------------
(* State after SearchWidget::SearchWidget *)

Init ==
    /\ search = <<>>
    /\ core = [currentlyDebugging |-> FALSE,
               currentlyEmulating |-> FALSE,
               comments |-> [o \in Offsets |-> <<>>]]
    /\ searchInCombo =
         updateSearchBoundariesCombo([items |-> <<>>, idx |-> -1], FALSE, FALSE)
    /\ searchspaceCombo = [items |-> <<>>, idx |-> -1]
    /\ filterLineEdit = [text |-> <<>>, placeholder |-> ""]
    /\ searchButton = [enabled |-> TRUE, text |-> "Search"]
    /\ proxy = [filter |-> <<>>, sortColumn |-> OFFSET]
    /\ stack = <<>>
    /\ toolTip = NoToolTip
    /\ last = Step("SearchWidget", <<>>, <<>>)

----------------------------------------------------------------------------
(* Handlers *)

\* CutterCore::toggleDebugView -> updateSearchBoundaries(); the core has set its
\* flags to f before it emits the signal
toggleDebugView(f) ==
    /\ core' = [core EXCEPT !.currentlyDebugging = f.currentlyDebugging,
                            !.currentlyEmulating = f.currentlyEmulating]
    /\ searchInCombo' = updateSearchBoundariesCombo(searchInCombo,
                            f.currentlyDebugging, f.currentlyEmulating)
    /\ filterLineEdit' = [filterLineEdit EXCEPT !.text = <<>>]
    /\ last' = Step("updateSearchBoundaries", <<>>, <<>>)
    /\ UNCHANGED <<search, searchspaceCombo, searchButton, proxy, stack, toolTip>>

\* CutterCore::refreshAll -> refreshSearchspaces(), which ends in refreshSearch();
\* res is what the engine returns
refreshSearchspaces(res) ==
    /\ searchspaceCombo' = refreshSearchspacesCombo(searchspaceCombo)
    /\ filterLineEdit' = [filterLineEdit EXCEPT
                            !.placeholder = updatePlaceholderText(searchspaceCombo'.idx)]
    /\ search' = res
    /\ last' = Step("refreshSearchspaces",
                    <<refreshSearchCall(filterLineEdit, searchspaceCombo', searchInCombo)>>,
                    <<>>)
    /\ UNCHANGED <<searchInCombo, searchButton, core, proxy, stack, toolTip>>

\* CutterCore::commentsChanged -> emitColumnChanged(search_model, COMMENT); the
\* core has changed its comments to c before it emits the signal
commentsChanged(c) ==
    /\ core' = [core EXCEPT !.comments = c]
    /\ last' = Step("commentsChanged", <<>>, <<>>)
    /\ UNCHANGED <<search, searchInCombo, searchspaceCombo, filterLineEdit,
                   searchButton, proxy, stack, toolTip>>

\* disableSearch() up to its call of qApp->processEvents(), run by the Enter
\* shortcut (via = "enter") or by the button's clicked signal (via = "click")
disableSearch(via) ==
    /\ InputLoop
    /\ Len(stack) < MaxDepth
    /\ via = "click" => searchButton.enabled
    /\ searchButton' = [enabled |-> FALSE, text |-> "Searching..."]
    /\ stack' = Append(stack, [via |-> via, pc |-> "flush"])
    /\ last' = Step("disableSearch", <<>>, <<>>)
    /\ UNCHANGED <<search, searchInCombo, searchspaceCombo, filterLineEdit,
                   core, proxy, toolTip>>

enter_press == disableSearch("enter")

searchButtonClicked == disableSearch("click")

\* processEvents() returns to the innermost handler, which runs refreshSearch()
\* (res is what the engine returns; adjustColumns only resizes the view) and
\* checkSearchResultEmpty(); with results it goes on to enableSearch() and
\* returns, without results it opens the modal message box, whose event loop
\* delivers the core's notifications but no input to the panel
searchAndCheck(res) ==
    /\ stack # <<>>
    /\ stack[Len(stack)].pc = "flush"
    /\ search' = res
    /\ IF res = <<>>
       THEN /\ stack' = [stack EXCEPT ![Len(stack)].pc = "dialog"]
            /\ last' = Step("refreshSearch",
                            <<refreshSearchCall(filterLineEdit, searchspaceCombo, searchInCombo)>>,
                            <<noResultsMessage(filterLineEdit.text)>>)
            /\ UNCHANGED searchButton
       ELSE /\ stack' = SubSeq(stack, 1, Len(stack) - 1)
            /\ last' = Step("refreshSearch",
                            <<refreshSearchCall(filterLineEdit, searchspaceCombo, searchInCombo)>>,
                            <<>>)
            /\ searchButton' = [enabled |-> TRUE, text |-> "Search"]
    /\ UNCHANGED <<searchInCombo, searchspaceCombo, filterLineEdit, core, proxy, toolTip>>

\* the user dismisses the message box; the handler goes on to enableSearch()
enableSearch ==
    /\ stack # <<>>
    /\ stack[Len(stack)].pc = "dialog"
    /\ stack' = SubSeq(stack, 1, Len(stack) - 1)
    /\ searchButton' = [enabled |-> TRUE, text |-> "Search"]
    /\ last' = Step("enableSearch", <<>>, <<>>)
    /\ UNCHANGED <<search, searchInCombo, searchspaceCombo, filterLineEdit,
                   core, proxy, toolTip>>

\* the user picks item i of the search-boundary combo
pickSearchIn(i) ==
    /\ InputLoop
    /\ i \in 0..(Len(searchInCombo.items) - 1)
    /\ searchInCombo' = ComboSetCurrentIndex(searchInCombo, i)
    /\ last' = Step("pickSearchIn", <<>>, <<>>)
    /\ UNCHANGED <<search, searchspaceCombo, filterLineEdit, searchButton,
                   core, proxy, stack, toolTip>>

\* the user picks item i of the search-space combo; currentIndexChanged runs
\* updatePlaceholderText(i)
pickSearchspace(i) ==
    /\ InputLoop
    /\ i \in 0..(Len(searchspaceCombo.items) - 1)
    /\ searchspaceCombo' = ComboSetCurrentIndex(searchspaceCombo, i)
    /\ filterLineEdit' = [filterLineEdit EXCEPT !.placeholder = updatePlaceholderText(i)]
    /\ last' = Step("pickSearchspace", <<>>, <<>>)
    /\ UNCHANGED <<search, searchInCombo, searchButton, core, proxy, stack, toolTip>>

\* the user types text t into the filter line edit
editFilterText(t) ==
    /\ InputLoop
    /\ filterLineEdit' = [filterLineEdit EXCEPT !.text = t]
    /\ last' = Step("editFilterText", <<>>, <<>>)
    /\ UNCHANGED <<search, searchInCombo, searchspaceCombo, searchButton,
                   core, proxy, stack, toolTip>>

\* the controller's steps; the comment table stays as it is here, the handler
\* of commentsChanged does not read it
Next ==
    \/ \E f \in FlagStates : toggleDebugView(f)
    \/ \E res \in EngineAnswers : refreshSearchspaces(res)
    \/ commentsChanged(core.comments)
    \/ enter_press
    \/ searchButtonClicked
    \/ \E res \in EngineAnswers : searchAndCheck(res)
    \/ enableSearch
    \/ \E i \in 0..MaxPick : pickSearchIn(i)
    \/ \E i \in 0..MaxPick : pickSearchspace(i)
    \/ \E t \in FilterTexts : editFilterText(t)

Spec == Init /\ [][Next]_vars

----------------------------------------------------------------------------
(* SearchModel and SearchSortFilterProxyModel *)

\* Core()->getCommentAt(offset)
getCommentAt(offset) == core.comments[offset]

RECURSIVE LexLess(_, _)
\* QString::operator<: lexical comparison by code unit
LexLess(s, t) ==
    IF t = <<>> THEN FALSE
    ELSE IF s = <<>> THEN TRUE
    ELSE IF CharCode(Head(s)) # CharCode(Head(t))
         THEN CharCode(Head(s)) < CharCode(Head(t))
         ELSE LexLess(Tail(s), Tail(t))

\* qhelpers::filterStringContains (common/Helpers.cpp): string contains filter
filterStringContains(string, filter) ==
    \E i \in 0..(Len(string) - Len(filter)) :
        SubSeq(string, i + 1, i + Len(filter)) = filter

\* faulty variant: the filter is matched against the data field
filterAcceptsRowOnData(row) ==
    filterStringContains(search[row + 1].data, proxy.filter)

\* SearchSortFilterProxyModel::filterAcceptsRow(row)
filterAcceptsRow(row) ==
    filterStringContains(search[row + 1].code, proxy.filter)

\* faulty variant: the SIZE and OFFSET cases are swapped and the fallback compares sizes
lessThanSwapped(column, left_search, right_search) ==
    CASE column = SIZE    -> left_search.offset < right_search.offset
      [] column = OFFSET  -> left_search.size < right_search.size
      [] column = CODE    -> LexLess(left_search.code, right_search.code)
      [] column = DATA    -> LexLess(left_search.data, right_search.data)
      [] column = COMMENT -> LexLess(getCommentAt(left_search.offset),
                                     getCommentAt(right_search.offset))
      [] OTHER            -> left_search.size < right_search.size

\* SearchSortFilterProxyModel::lessThan on two records of column left.column()
lessThan(column, left_search, right_search) ==
    CASE column = SIZE    -> left_search.size < right_search.size
      [] column = OFFSET  -> left_search.offset < right_search.offset
      [] column = CODE    -> LexLess(left_search.code, right_search.code)
      [] column = DATA    -> LexLess(left_search.data, right_search.data)
      [] column = COMMENT -> LexLess(getCommentAt(left_search.offset),
                                     getCommentAt(right_search.offset))
      [] OTHER            -> left_search.offset < right_search.offset

RECURSIVE InsertRow(_, _, _)
\* one step of the proxy's stable sort: row goes before the first row it is less than
InsertRow(column, row, sorted) ==
    IF sorted = <<>> THEN <<row>>
    ELSE IF lessThan(column, search[row + 1], search[Head(sorted) + 1])
         THEN <<row>> \o sorted
         ELSE <<Head(sorted)>> \o InsertRow(column, row, Tail(sorted))

RECURSIVE SortRows(_, _)
\* the source rows of `rows` in the proxy's ascending order by `column`
SortRows(column, rows) ==
    IF rows = <<>> THEN <<>>
    ELSE InsertRow(column, rows[Len(rows)],
                   SortRows(column, SubSeq(rows, 1, Len(rows) - 1)))

\* the source rows the proxy shows, in the order it shows them
proxyRows ==
    SortRows(proxy.sortColumn,
             SelectSeq([i \in 1..rowCount |-> i - 1], filterAcceptsRow))

\* the lines Core()->getDisassemblyPreview(offset, maxLines) may answer
DisassemblyPreviews(offset, maxLines) ==
    { p \in { <<>>, << <<"disasm", ToString(offset), "0">> >>,
              << <<"disasm", ToString(offset), "0">>, <<"disasm", ToString(offset), "1">> >> } :
        Len(p) <= maxLines }

\* Core()->getHexdumpPreview(offset, maxBytes)
getHexdumpPreview(offset, maxBytes) ==
    <<"hexdump", ToString(offset), ToString(maxBytes)>>

RECURSIVE join(_, _)
\* QStringList::join(separator)
join(lines, separator) ==
    IF lines = <<>> THEN <<>>
    ELSE IF Len(lines) = 1 THEN Head(lines)
    ELSE Head(lines) \o <<separator>> \o join(Tail(lines), separator)

\* previewContent in SearchModel::data(index, Qt::ToolTipRole), the engine
\* answering `disasm` if asked for a disassembly preview
previewContent(exp, disasm) ==
    LET initial == <<>>
    IN  IF exp.code # <<>> THEN join(disasm, "<br>")
        ELSE IF exp.data # <<>> \/ initial = <<>>
             THEN getHexdumpPreview(exp.offset, kMaxTooltipHexdumpBytes)
             ELSE initial

\* SearchModel::data(index, Qt::ToolTipRole)
toolTipContent(exp, disasm) ==
    <<"<html><div style=\"font-family: %1; font-size: %2pt; white-space: nowrap;\">",
      "<div style=\"margin-bottom: 10px;\"><strong>Preview</strong>:<br>">>
    \o previewContent(exp, disasm)
    \o <<"</div>", "</div></html>">>

----------------------------------------------------------------------------
(* What the view does with the model and the proxy *)

\* the proxy's filter string is set to s
setFilter(s) ==
    /\ proxy' = [proxy EXCEPT !.filter = s]
    /\ UNCHANGED <<search, searchInCombo, searchspaceCombo, filterLineEdit,
                   searchButton, core, stack, toolTip, last>>

\* the view sorts by column c (a header click; the constructor sorts by OFFSET)
sortByColumn(c) ==
    /\ proxy' = [proxy EXCEPT !.sortColumn = c]
    /\ UNCHANGED <<search, searchInCombo, searchspaceCombo, filterLineEdit,
                   searchButton, core, stack, toolTip, last>>

\* the view asks SearchModel::data for the tooltip of source row `row`; the
\* engine answers `disasm` if asked for a disassembly preview
toolTipRole(row) ==
    /\ row < rowCount
    /\ \E disasm \in DisassemblyPreviews(search[row + 1].offset,
                                         kMaxTooltipDisasmPreviewLines) :
         toolTip' = [row     |-> row,
                     exp     |-> search[row + 1],
                     disasm  |-> disasm,
                     preview |-> previewContent(search[row + 1], disasm),
                     content |-> toolTipContent(search[row + 1], disasm)]
    /\ UNCHANGED <<search, searchInCombo, searchspaceCombo, filterLineEdit,
                   searchButton, core, proxy, stack, last>>

NextView ==
    \/ \E res \in Lists(Records, MaxRows) : refreshSearchspaces(res)
    \/ \E c \in CommentSets : commentsChanged(c)
    \/ \E s \in ProxyFilters : setFilter(s)
    \/ \E c \in 0..COUNT : sortByColumn(c)

\* the model and the proxy as the view uses them, over the result sets a
\* refresh can load
SpecView == Init /\ [][NextView]_vars

NextToolTip ==
    \/ \E res \in Lists(Records, MaxRows) : refreshSearchspaces(res)
    \/ \E row \in 0..(MaxRows - 1) : toolTipRole(row)

\* the tooltips of the result sets a refresh can load
SpecToolTip == Init /\ [][NextToolTip]_vars

----------------------------------------------------------------------------
(* Properties *)

\* the keys a combo offers
OfferedKeys(c) == { c.items[i].data : i \in DOMAIN c.items }

\* whether the combo has exactly one current item
OneSelected(c) == c.idx \in 0..(Len(c.items) - 1)

\* s occurs in t as a contiguous run
IsSubstring(s, t) ==
    \E i \in 0..Len(t) : \E j \in i..Len(t) : SubSeq(t, i + 1, j) = s

StartsWith(s, p) == Len(s) >= Len(p) /\ SubSeq(s, 1, Len(p)) = p

RECURSIVE Unescape(_)
\* the text an HTML renderer shows for s; "?" for an ampersand that starts no entity
Unescape(s) ==
    IF s = <<>> THEN <<>>
    ELSE IF Head(s) # "&" THEN <<Head(s)>> \o Unescape(Tail(s))
    ELSE IF StartsWith(s, <<"&", "l", "t", ";">>)
         THEN <<"<">> \o Unescape(SubSeq(s, 5, Len(s)))
    ELSE IF StartsWith(s, <<"&", "g", "t", ";">>)
         THEN <<">">> \o Unescape(SubSeq(s, 5, Len(s)))
    ELSE IF StartsWith(s, <<"&", "a", "m", "p", ";">>)
         THEN <<"&">> \o Unescape(SubSeq(s, 6, Len(s)))
    ELSE IF StartsWith(s, <<"&", "q", "u", "o", "t", ";">>)
         THEN <<"\"">> \o Unescape(SubSeq(s, 7, Len(s)))
    ELSE <<"?">> \o Unescape(Tail(s))

\* message is the "No results found for:" notice showing `text`, with no
\* markup character of `text` left unescaped
ShowsEscaped(message, text) ==
    /\ Len(message) >= 3
    /\ SubSeq(message, 1, 3) = <<"<b>", "No results found for:", "</b><br>">>
    /\ LET shown == SubSeq(message, 4, Len(message))
       IN  /\ \A i \in DOMAIN shown : shown[i] \notin {"<", ">", "\""}
           /\ Unescape(shown) = text

\* the offsets of the records of source rows `rows` never decrease along `rows`
NonDecreasingOffsets(rows) ==
    \A i \in 1..(Len(rows) - 1) :
        search[rows[i] + 1].offset <= search[rows[i + 1] + 1].offset

\* the sizes of the records of source rows `rows` never decrease along `rows`
NonDecreasingSizes(rows) ==
    \A i \in 1..(Len(rows) - 1) :
        search[rows[i] + 1].size <= search[rows[i + 1] + 1].size

(* C1: in every reachable state of the controller (after any sequence of
   searches, search-space refreshes, boundary refreshes and comment-change
   notifications) the table model reports as many rows as the result set has
   records, and 5 columns. *)
C1_RowAndColumnCount ==
    /\ rowCount = Cardinality(DOMAIN search)
    /\ columnCount = 5

\* C1 witness: a triggered search has loaded a non-empty result set
C1_Witness ==
    /\ last.op = "refreshSearch"
    /\ search # <<>>
    /\ rowCount >= 1

(* C2, as claimed: whenever a step calls the engine's getAllSearch, exactly
   one search boundary and exactly one search space are selected, and neither
   key passed to the engine is empty. *)
C2_OneBoundaryOneSearchspace ==
    \A i \in DOMAIN last.calls :
        /\ OneSelected(searchInCombo)
        /\ OneSelected(searchspaceCombo)
        /\ last.calls[i].searchIn # ""
        /\ last.calls[i].searchSpace # ""

(* C3, as amended: after construction and after every boundary refresh the
   options offered are, without repetition, the debug set (block, dbg.heap,
   dbg.map, dbg.maps, dbg.stack) if the core is debugging and not emulating,
   and otherwise the six static options (bin.section, bin.sections, block,
   io.map, io.maps, raw). *)
C3_BoundaryOptionsFollowFlags ==
    last.op \in {"SearchWidget", "updateSearchBoundaries"} =>
        /\ OfferedKeys(searchInCombo) =
              IF core.currentlyDebugging /\ ~core.currentlyEmulating
              THEN {"dbg.maps", "dbg.stack", "dbg.heap", "dbg.map", "block"}
              ELSE {"raw", "block", "bin.section", "bin.sections", "io.map", "io.maps"}
        /\ Len(searchInCombo.items) = Cardinality(OfferedKeys(searchInCombo))

\* C3 witness: a refresh has switched the options to the debug set
C3_Witness ==
    /\ last.op = "updateSearchBoundaries"
    /\ core.currentlyDebugging /\ ~core.currentlyEmulating
    /\ "dbg.stack" \in OfferedKeys(searchInCombo)
    /\ Len(searchInCombo.items) = 5

(* C3, as claimed: the static set is exactly raw, block, sections, maps. *)
C3_StaticSetOfFour ==
    last.op \in {"SearchWidget", "updateSearchBoundaries"} =>
        OfferedKeys(searchInCombo) =
            IF core.currentlyDebugging /\ ~core.currentlyEmulating
            THEN {"dbg.maps", "dbg.stack", "dbg.heap", "dbg.map", "block"}
            ELSE {"raw", "block", "bin.sections", "io.maps"}

(* C4, as amended: a search run by Enter or by a click presents exactly one
   dialog, showing the HTML-escaped search text, if it ends with an empty
   result set, and none otherwise; the search re-run by a search-space refresh
   presents no dialog. *)
C4_DialogAfterTriggeredSearch ==
    /\ last.op = "refreshSearch" =>
          IF search = <<>>
          THEN /\ Len(last.dialogs) = 1
               /\ ShowsEscaped(last.dialogs[1], last.calls[1].searchFor)
               /\ stack[Len(stack)].pc = "dialog"
          ELSE last.dialogs = <<>>
    /\ last.op = "refreshSearchspaces" => last.dialogs = <<>>

\* C4 witness: a triggered search for text with markup found nothing
C4_Witness ==
    /\ last.op = "refreshSearch"
    /\ search = <<>>
    /\ last.calls[1].searchFor = <<"<", "&">>
    /\ Len(last.dialogs) = 1

(* C4, as claimed: every step that runs a search presents exactly one dialog
   if the result set is empty and none otherwise, the refresh's search
   included. *)
C4_DialogAfterEverySearch ==
    last.calls # <<>> =>
        IF search = <<>>
        THEN /\ Len(last.dialogs) = 1
             /\ ShowsEscaped(last.dialogs[1], last.calls[1].searchFor)
        ELSE last.dialogs = <<>>

(* C5: for every result set and filter string the proxy accepts exactly the
   rows whose code field contains the filter string as a substring; with an
   empty filter string every row is accepted, rows without code included. *)
C5_FilterAcceptsCodeSubstring ==
    /\ \A row \in 0..(rowCount - 1) :
          filterAcceptsRow(row) <=> IsSubstring(proxy.filter, search[row + 1].code)
    /\ { proxyRows[i] : i \in DOMAIN proxyRows } =
          { row \in 0..(rowCount - 1) : IsSubstring(proxy.filter, search[row + 1].code) }
    /\ proxy.filter = <<>> => Len(proxyRows) = rowCount

\* C5 witness: a filter accepts a row with code and rejects a data-only row
C5_Witness ==
    /\ proxy.filter # <<>>
    /\ \E r1, r2 \in 0..(rowCount - 1) :
          /\ filterAcceptsRow(r1)
          /\ ~filterAcceptsRow(r2)
          /\ search[r2 + 1].code = <<>>
          /\ search[r2 + 1].data # <<>>

(* C6: ordering the rows with lessThan on the offset column gives
   non-decreasing offsets and on the size column non-decreasing sizes; for a
   column outside the five known ones lessThan compares offsets; for each
   column lessThan is irreflexive and asymmetric. *)
C6_LessThanOrders ==
    /\ proxy.sortColumn = OFFSET => NonDecreasingOffsets(proxyRows)
    /\ proxy.sortColumn = SIZE => NonDecreasingSizes(proxyRows)
    /\ \A i, j \in DOMAIN search :
          /\ \A column \in {-1, COUNT, COUNT + 1} :
                lessThan(column, search[i], search[j])
                    <=> search[i].offset < search[j].offset
          /\ \A column \in 0..COUNT :
                /\ ~lessThan(column, search[i], search[i])
                /\ lessThan(column, search[i], search[j])
                      => ~lessThan(column, search[j], search[i])

\* C6 witness: sorting by size has put a later row first
C6_Witness ==
    /\ proxy.sortColumn = SIZE
    /\ Len(proxyRows) >= 2
    /\ proxyRows[1] > proxyRows[2]
    /\ search[proxyRows[1] + 1].offset > search[proxyRows[2] + 1].offset

(* C7, as claimed: the tooltip's preview is the disassembly preview if the
   row has code and a disassembly is available, and otherwise the 64-byte
   hexdump preview at the row's offset; so a row with code whose disassembly
   preview is empty shows the hexdump. *)
C7_PreviewFallsBackToHexdump ==
    toolTip # NoToolTip =>
        toolTip.preview =
            IF toolTip.exp.code # <<>> /\ toolTip.disasm # <<>>
            THEN join(toolTip.disasm, "<br>")
            ELSE getHexdumpPreview(toolTip.exp.offset, 64)

(* C8, as claimed: a search triggered by Enter or click runs inside the
   Searching state: when the handler calls the engine the trigger is still
   disabled and labelled "Searching...", and it is re-enabled only after the
   handler's empty-result check. *)
C8_TriggerDisabledUntilChecked ==
    [][last'.op = "refreshSearch" =>
          /\ ~searchButton.enabled
          /\ searchButton.text = "Searching..."]_vars

(* C9, as claimed: searches never overlap: while a handler is between
   disableSearch and enableSearch no second handler is running, the trigger
   stays disabled, and no search runs but that handler's own. *)
C9_SearchesNeverOverlap ==
    stack # <<>> =>
        /\ Len(stack) = 1
        /\ ~searchButton.enabled
        /\ last.calls # <<>> => last.op = "refreshSearch"

(* C10: every search-space refresh leaves the six fixed options in the fixed
   order and the index selected before it (0 if none), then runs exactly one
   search with that selection; a refresh right after a refresh changes neither
   the list nor the index. *)
C10_RefreshSearchspacesKeepsSelection ==
    [][last'.op = "refreshSearchspaces" =>
          /\ [i \in DOMAIN searchspaceCombo'.items |-> searchspaceCombo'.items[i].data]
                = <<"/acj", "/j", "/ij", "/xj", "/Rj", "/vj">>
          /\ [i \in DOMAIN searchspaceCombo'.items |-> searchspaceCombo'.items[i].text]
                = <<"asm code", "string", "string (case insensitive)", "hex string",
                    "ROP gadgets", "32bit value">>
          /\ searchspaceCombo'.idx =
                (IF searchspaceCombo.idx < 0 THEN 0 ELSE searchspaceCombo.idx)
          /\ Len(last'.calls) = 1
          /\ last'.calls[1].searchSpace =
                searchspaceCombo'.items[searchspaceCombo'.idx + 1].data
          /\ last.op = "refreshSearchspaces" => searchspaceCombo' = searchspaceCombo]_vars

\* C10 witness: a refresh has kept a selection other than the first option
C10_Witness ==
    /\ last.op = "refreshSearchspaces"
    /\ searchspaceCombo.idx = 1
    /\ last.calls[1].searchSpace = "/j"

====
